---- MODULE Spec2Model ----
(***************************************************************************)
(* Model of dhis2_async.Dhis2 (src/dhis2_async/dhis2.py): an asyncio HTTP  *)
(* client whose get / get_streamed / post share one lazily created         *)
(* aiohttp session, one asyncio.Semaphore and one tenacity retry policy.   *)
(*                                                                         *)
(* Every action is one run of a coroutine between two suspension points    *)
(* of the event loop (cooperative scheduling: code between two awaits      *)
(* that really suspend is atomic).                                         *)
(***************************************************************************)
EXTENDS Integers, Naturals, Sequences, FiniteSets, TLC

\* ------------------------------------------------------------------ bounds
NumCalls  == 2      \* number of get/get_streamed/post calls made on the client
Limit     == 1      \* rate_limit_per_second given to the constructor
ConcCloses == 1     \* number of close() calls made while calls run concurrently
MaxCloses == 2      \* number of close() calls made around a single call
MaxChunks == 1      \* largest streamed body, in chunks

\* ------------------------------------------------------- program constants
max_retries == 3    \* Dhis2.max_retries
backoff_factor == 1 \* Dhis2.backoff_factor
wait_min == 1       \* wait_exponential(min=1)
wait_max == 10      \* wait_exponential(max=10)
exp_base == 2       \* wait_exponential's base

Calls    == 1..NumCalls
Ops      == {"get", "get_streamed", "post"}
Statuses == {200, 304, 400, 404, 500}
Bodies   == {"json", "empty", "badjson"}
None     == 0

VARIABLES
    session,      \* self._session: None or the id of a ClientSession
    live,         \* the ClientSession objects that were created and not closed
    closed,       \* the closed ClientSession objects something still refers to
    closePc,      \* "idle", or "closing": a close() is suspended in await session.close()
    closeCalls,   \* number of close() calls made
    semValue,     \* self._semaphore._value
    waiters,      \* self._semaphore._waiters, oldest first
    pc,           \* where each call is
    op,           \* which public method each call is
    attempts,     \* how many times the method body was run for the call
    sess,         \* the local variable `session` of an attempt that has not made
                  \* its request yet (None once session.get / session.post is called)
    lastErr,      \* the exception the last attempt ended with ("none": no exception)
    lastStatus,   \* the HTTP status the last attempt received (0: no response)
    raised,       \* the exception that reached the caller ("none": nothing raised)
    total,        \* chunks in the body of the streamed response
    yielded,      \* chunks the consumer has received
    lastBody,     \* the body the last attempt of a get or post received ("none": no body)
    backoff,      \* seconds the retry layer sleeps before the next attempt (0: no sleep)
    scope,        \* `async with client`: "never" entered, "in" the block, "out" of it
    stage,        \* which object a behaviour is about; "client": a Dhis2 in use
    url,          \* the url argument of Dhis2(url, ...), a sequence of characters
    base_url,     \* self.base_url, a sequence of characters
    bodyLen,      \* bytes in the body of a streamed response
    inside,       \* the byte offsets of the body that fall inside a multi-byte character
    pending,      \* bytes of the body the network has not delivered yet
    buffer,       \* bytes delivered to response.content and not read yet
    chunks        \* the sizes in bytes of the chunks yielded, in order

vars == <<session, live, closed, closePc, closeCalls, semValue, waiters,
          pc, op, attempts, sess, lastErr, lastStatus, raised, total, yielded,
          lastBody, backoff, scope, stage, url, base_url,
          bodyLen, inside, pending, buffer, chunks>>

clientVars == <<session, live, closePc, closeCalls>>
semVars    == <<semValue, waiters>>
urlVars    == <<url, base_url>>
chunkVars  == <<bodyLen, inside, pending, buffer, chunks>>
pureVars   == <<stage, urlVars, chunkVars>>

\* --------------------------------------------------------- exception types
\* The classes the code distinguishes, with aiohttp's hierarchy:
\* ClientResponseError is a subclass of ClientError.
Parents(kind) ==
    CASE kind = "ClientResponseError" -> {"ClientResponseError", "ClientError"}
      [] OTHER                        -> {kind}

IsInstance(kind, classes) == Parents(kind) \cap classes # {}

\* retry=retry_if_exception_type((ClientError, TimeoutError, ClientTimeout))
\*       & retry_if_not_exception_type((NonRetryableError, ClientResponseError))
RetryAny(kind) == TRUE
RetryPredicate(kind) ==
    /\ IsInstance(kind, {"ClientError", "TimeoutError", "ClientTimeout"})
    /\ ~ IsInstance(kind, {"NonRetryableError", "ClientResponseError"})

\* stop=stop_after_attempt(cls.max_retries)
StopOffByOne(n) == n > max_retries
StopAfterAttempt(n) == n >= max_retries

\* wait=wait_exponential(multiplier=cls.backoff_factor, min=1, max=10): the
\* sleep after failed attempt n.
Max(a, b) == IF a >= b THEN a ELSE b
Min(a, b) == IF a <= b THEN a ELSE b
WaitFromAttemptNumber(n) ==
    Max(Max(0, wait_min), Min(backoff_factor * exp_base ^ n, wait_max))
WaitExponential(n) ==
    Max(Max(0, wait_min), Min(backoff_factor * exp_base ^ (n - 1), wait_max))

\* tenacity.retry() builds an AsyncRetrying only around a coroutine function;
\* get_streamed is an async generator function, so calling the wrapped method
\* returns the generator object and no exception of its body reaches tenacity.
IsCoroutineFunction(o) == o \in {"get", "post"}

\* ------------------------------------------------------- _handle_response
\* The exception _handle_response ends with for a response, "none" if it returns.
EmptyBodyAccepted(status, body) ==
    IF status >= 400
    THEN IF status = 400 THEN "NonRetryableError"
         ELSE IF status >= 500 THEN "ClientResponseError"
         ELSE "NonRetryableError"
    ELSE IF body = "badjson" THEN "JSONDecodeError"
    ELSE "none"
HandleResponse(status, body) ==
    IF status >= 400                     \* response.raise_for_status()
    THEN IF status = 400 THEN "NonRetryableError"
         ELSE IF status >= 500 THEN "ClientResponseError"
         ELSE "NonRetryableError"
    ELSE IF body = "empty" THEN "ClientError"
    ELSE IF body = "badjson" THEN "JSONDecodeError"
    ELSE "none"

\* get_streamed only calls raise_for_status().
StreamStatusCheck(status) == IF status >= 400 THEN "ClientResponseError" ELSE "none"

\* ------------------------------------------------------------ the semaphore
\* asyncio.Semaphore.locked(): no slot, or somebody is queued
LockedOnlyWhenQueued == waiters # <<>>
Locked == semValue = 0 \/ waiters # <<>>

RemoveFrom(q, c) == SelectSeq(q, LAMBDA x : x # c)

\* _wake_up_next(): the oldest waiter whose future is not done gets the slot
Sleepers(q, p) == SelectSeq(q, LAMBDA x : p[x] = "waiting")

\* release() on value v with queue q and positions p: <<new value, woken call or 0>>
ReleaseDropped(v, q, p) == <<v, 0>>
ReleaseSlot(v, q, p) ==
    IF Sleepers(q, p) # <<>> THEN <<v, Head(Sleepers(q, p))>>
    ELSE <<v + 1, 0>>

\* ------------------------------------------------------------------- Init
IdleClient ==
    /\ session = None
    /\ live = {}
    /\ closed = {}
    /\ closePc = "idle"
    /\ closeCalls = 0
    /\ semValue = Limit
    /\ waiters = <<>>
    /\ pc = [c \in Calls |-> "idle"]
    /\ op = [c \in Calls |-> "get"]
    /\ attempts = [c \in Calls |-> 0]
    /\ sess = [c \in Calls |-> None]
    /\ lastErr = [c \in Calls |-> "none"]
    /\ lastStatus = [c \in Calls |-> 0]
    /\ raised = [c \in Calls |-> "none"]
    /\ total = [c \in Calls |-> 0]
    /\ yielded = [c \in Calls |-> 0]
    /\ lastBody = [c \in Calls |-> "none"]
    /\ backoff = [c \in Calls |-> 0]
    /\ scope = "never"

\* The variables of the constructor's arguments, unused while a client runs.
IdleUrl ==
    /\ url = <<>>
    /\ base_url = <<>>

\* The variables of one response body, unused while a client runs.
IdleChunks ==
    /\ bodyLen = 0
    /\ inside = {}
    /\ pending = 0
    /\ buffer = 0
    /\ chunks = <<>>

Init ==
    /\ IdleClient
    /\ stage = "client"
    /\ IdleUrl
    /\ IdleChunks

\* ---------------------------------------------------------- _init_session
\* An object nothing refers to is gone; a new object is named by the first
\* free id.
NewSession == CHOOSE i \in 1..(Cardinality(live \cup closed) + 1) :
                  /\ i \notin live \cup closed
                  /\ \A j \in 1..(i - 1) : j \in live \cup closed

NeedsSession == session = None \/ session \in closed
\* the session _init_session returns
InitSessionResult == IF NeedsSession THEN NewSession ELSE session

InitSession ==
    /\ session' = InitSessionResult
    /\ live' = IF NeedsSession THEN live \cup {NewSession} ELSE live
    /\ UNCHANGED <<closePc, closeCalls>>

\* The closed sessions the client or a running attempt still refers to.
Collect ==
    closed' = {s \in closed : s = session' \/ \E c \in Calls : sess'[c] = s}

\* -------------------------------------------------------------- the retry
\* What tenacity does with an attempt of method o, number n, that ended with
\* exception kind: "done" (return), "sleeping" (wait, then call again) or
\* "failed" (raise to the caller).
AfterAttempt(o, n, kind) ==
    IF kind = "none" THEN "done"
    ELSE IF ~ IsCoroutineFunction(o) THEN "failed"
    ELSE IF ~ RetryPredicate(kind) THEN "failed"
    ELSE IF StopAfterAttempt(n) THEN "failed"
    ELSE "sleeping"

\* The exception the caller sees.  Without reraise=True tenacity raises
\* RetryError (chained from the last exception) once stop says so.
RaisedToCaller(o, n, kind) ==
    IF kind = "none" THEN "none"
    ELSE IF ~ IsCoroutineFunction(o) THEN kind
    ELSE IF ~ RetryPredicate(kind) THEN kind
    ELSE IF StopAfterAttempt(n) THEN "RetryError"
    ELSE "none"

\* --------------------------------------------- leaving `async with semaphore`
\* Call c leaves the semaphore block for position newpc; q is the queue
\* without c.  __aexit__ calls release().
LeaveKeepingSlot(c, newpc, q) ==
    /\ waiters' = q
    /\ semValue' = semValue
    /\ pc' = [pc EXCEPT ![c] = newpc]
LeaveHoldingSlotInBackoff(c, newpc, q) ==
    LET r == IF newpc = "sleeping" THEN <<semValue, 0>>
             ELSE ReleaseSlot(semValue, q, pc) IN
    /\ waiters' = q
    /\ semValue' = r[1]
    /\ pc' = IF r[2] # 0 THEN [pc EXCEPT ![c] = newpc, ![r[2]] = "woken"]
                        ELSE [pc EXCEPT ![c] = newpc]
Leave(c, newpc, q) ==
    LET r == ReleaseSlot(semValue, q, pc) IN
    /\ waiters' = q
    /\ semValue' = r[1]
    /\ pc' = IF r[2] # 0 THEN [pc EXCEPT ![c] = newpc, ![r[2]] = "woken"]
                        ELSE [pc EXCEPT ![c] = newpc]

\* The locals of the method body are gone once it has been left.
DropLocals(c) ==
    /\ sess' = [sess EXCEPT ![c] = None]
    /\ total' = [total EXCEPT ![c] = 0]
    /\ yielded' = [yielded EXCEPT ![c] = 0]

\* The attempt of call c ends with exception kind after response status
\* (0: none): the slot is released, then the retry layer decides.
EndAttempt(c, kind, status, q) ==
    /\ Leave(c, AfterAttempt(op[c], attempts[c], kind), q)
    /\ lastErr' = [lastErr EXCEPT ![c] = kind]
    /\ lastStatus' = [lastStatus EXCEPT ![c] = status]
    /\ raised' = [raised EXCEPT ![c] = RaisedToCaller(op[c], attempts[c], kind)]
    /\ backoff' = [backoff EXCEPT ![c] =
                        IF AfterAttempt(op[c], attempts[c], kind) = "sleeping"
                        THEN WaitExponential(attempts[c]) ELSE 0]
    /\ DropLocals(c)

\* ---------------------------------------------------------------- actions
\* A call of get / get_streamed / post, or the next attempt after the
\* backoff sleep: the method body runs up to its first suspension.
\* Calls are numbered in the order in which they are made.
BeginAttempt(c, o) ==
    /\ \/ pc[c] = "idle" /\ (IF c = 1 THEN TRUE ELSE pc[c - 1] # "idle")
       \/ pc[c] = "sleeping" /\ o = op[c]
    /\ op' = [op EXCEPT ![c] = o]
    /\ attempts' = [attempts EXCEPT ![c] = @ + 1]
    /\ InitSession                                  \* session = await self._init_session()
    /\ sess' = [sess EXCEPT ![c] = IF Locked THEN InitSessionResult ELSE None]
    /\ lastErr' = [lastErr EXCEPT ![c] = "none"]
    /\ lastStatus' = [lastStatus EXCEPT ![c] = 0]
    /\ IF ~ Locked                                  \* async with self._semaphore
       THEN /\ semValue' = semValue - 1
            /\ waiters' = waiters
            /\ pc' = [pc EXCEPT ![c] = "inflight"]  \* session.get / session.post
       ELSE /\ semValue' = semValue
            /\ waiters' = Append(waiters, c)
            /\ pc' = [pc EXCEPT ![c] = "waiting"]
    /\ lastBody' = [lastBody EXCEPT ![c] = "none"]
    /\ backoff' = [backoff EXCEPT ![c] = 0]
    /\ Collect
    /\ UNCHANGED <<raised, total, yielded, scope, pureVars>>

\* A waiter that was handed a slot runs again: acquire() returns and the
\* request is made on the session fetched before the wait.
Resume(c) ==
    /\ pc[c] = "woken"
    /\ LET q  == RemoveFrom(waiters, c)
           \* acquire(): if self._value > 0: self._wake_up_next()
           w  == IF semValue > 0 /\ Sleepers(q, pc) # <<>> THEN Head(Sleepers(q, pc)) ELSE 0
           v1 == IF w # 0 THEN semValue - 1 ELSE semValue
           p1 == IF w # 0 THEN [pc EXCEPT ![w] = "woken"] ELSE pc
       IN
       IF sess[c] \in closed
       THEN \* aiohttp: RuntimeError("Session is closed"); __aexit__ releases
            LET r == ReleaseSlot(v1, q, p1) IN
            /\ waiters' = q
            /\ semValue' = r[1]
            /\ pc' = [x \in Calls |->
                        IF x = c THEN AfterAttempt(op[c], attempts[c], "RuntimeError")
                        ELSE IF x = r[2] THEN "woken" ELSE p1[x]]
            /\ lastErr' = [lastErr EXCEPT ![c] = "RuntimeError"]
            /\ raised' = [raised EXCEPT ![c] =
                              RaisedToCaller(op[c], attempts[c], "RuntimeError")]
            /\ sess' = [sess EXCEPT ![c] = None]
       ELSE /\ waiters' = q
            /\ semValue' = v1
            /\ pc' = [p1 EXCEPT ![c] = "inflight"]
            /\ sess' = [sess EXCEPT ![c] = None]
            /\ UNCHANGED <<lastErr, raised>>
    /\ UNCHANGED <<clientVars, op, attempts, lastStatus, total, yielded,
                   lastBody, backoff, scope, pureVars>>
    /\ Collect

\* The response of a get or post arrives and _handle_response interprets it.
Respond(c, status, body) ==
    /\ pc[c] = "inflight"
    /\ op[c] \in {"get", "post"}
    /\ EndAttempt(c, HandleResponse(status, body), status, waiters)
    /\ lastBody' = [lastBody EXCEPT ![c] = body]
    /\ UNCHANGED <<clientVars, op, attempts, scope, pureVars>>
    /\ Collect

\* The request, or the read of the body, fails: connection error or timeout.
NetFail(c, kind) ==
    /\ \/ pc[c] = "inflight"
       \/ pc[c] = "streaming" /\ yielded[c] < total[c]
    /\ EndAttempt(c, kind, lastStatus[c], waiters)
    /\ UNCHANGED <<clientVars, op, attempts, lastBody, scope, pureVars>>
    /\ Collect

\* The free slots once the head of a streamed response is accepted: the
\* generator's yield is inside `async with self._semaphore`, nothing is released.
ReleasedAtHeaders == semValue + 1
SlotsWhileStreaming == semValue

\* The response head of a get_streamed arrives: raise_for_status(), then the
\* body of n chunks is iterated.
StreamOpen(c, status, n) ==
    /\ pc[c] = "inflight"
    /\ op[c] = "get_streamed"
    /\ IF StreamStatusCheck(status) = "none"
       THEN /\ pc' = [pc EXCEPT ![c] = "streaming"]
            /\ total' = [total EXCEPT ![c] = n]
            /\ lastStatus' = [lastStatus EXCEPT ![c] = status]
            /\ semValue' = SlotsWhileStreaming
            /\ UNCHANGED <<waiters, lastErr, raised, sess, yielded, backoff>>
       ELSE EndAttempt(c, StreamStatusCheck(status), status, waiters)
    /\ UNCHANGED <<clientVars, op, attempts, lastBody, scope, pureVars>>
    /\ Collect

\* yield chunk.decode('utf-8')
Yield(c) ==
    /\ pc[c] = "streaming"
    /\ yielded[c] < total[c]
    /\ yielded' = [yielded EXCEPT ![c] = @ + 1]
    /\ UNCHANGED <<clientVars, closed, semVars, pc, op, attempts, sess, lastErr,
                   lastStatus, raised, total, lastBody, backoff, scope, pureVars>>

\* The consumer asks for a chunk after the last one: the generator returns.
StreamEnd(c) ==
    /\ pc[c] = "streaming"
    /\ yielded[c] = total[c]
    /\ EndAttempt(c, "none", lastStatus[c], waiters)
    /\ UNCHANGED <<clientVars, op, attempts, lastBody, scope, pureVars>>
    /\ Collect

\* The consumer stops iterating while the generator is suspended at yield.
Abandon(c) ==
    /\ pc[c] = "streaming"
    /\ yielded[c] >= 1
    /\ pc' = [pc EXCEPT ![c] = "abandoned"]
    /\ UNCHANGED <<clientVars, closed, semVars, op, attempts, sess, lastErr,
                   lastStatus, raised, total, yielded, lastBody, backoff,
                   scope, pureVars>>

\* The abandoned generator is closed (aclose(), run by the consumer or by the
\* event loop's finalizer hook): GeneratorExit unwinds both `async with`.
Finalize(c) ==
    /\ pc[c] = "abandoned"
    /\ Leave(c, "closed", waiters)
    /\ DropLocals(c)
    /\ UNCHANGED <<clientVars, op, attempts, lastErr, lastStatus, raised,
                   lastBody, backoff, scope, pureVars>>
    /\ Collect

\* The task awaiting the call is cancelled.
Cancel(c) ==
    /\ \/ pc[c] \in {"waiting", "woken", "inflight", "sleeping"}
       \/ pc[c] = "streaming" /\ yielded[c] < total[c]
    /\ CASE pc[c] = "waiting" ->       \* the future is cancelled: no slot was taken
                LeaveKeepingSlot(c, "cancelled", RemoveFrom(waiters, c))
         [] pc[c] = "woken" ->         \* acquire(): self._value += 1; _wake_up_next()
                Leave(c, "cancelled", RemoveFrom(waiters, c))
         [] pc[c] = "sleeping" ->
                LeaveKeepingSlot(c, "cancelled", waiters)
         [] OTHER ->                   \* __aexit__ of the semaphore
                Leave(c, "cancelled", waiters)
    /\ raised' = [raised EXCEPT ![c] = "CancelledError"]
    /\ lastErr' = [lastErr EXCEPT ![c] = "CancelledError"]
    /\ lastStatus' = [lastStatus EXCEPT ![c] = 0]
    /\ lastBody' = [lastBody EXCEPT ![c] = "none"]
    /\ backoff' = [backoff EXCEPT ![c] = 0]
    /\ DropLocals(c)
    /\ UNCHANGED <<clientVars, op, attempts, scope, pureVars>>
    /\ Collect

\* close(): the guard, and session.close() up to its suspension; the session
\* reports closed from here on.  At most n close() calls are made.
CloseGuard == session # None /\ session \notin closed

Close(n) ==
    /\ closeCalls < n
    /\ closeCalls' = closeCalls + 1
    /\ IF CloseGuard
       THEN /\ closed' = closed \cup {session}
            /\ live' = live \ {session}
            /\ closePc' = "closing"
       ELSE UNCHANGED <<closed, live, closePc>>
    /\ UNCHANGED <<session, semVars, pc, op, attempts, sess,
                   lastErr, lastStatus, raised, total, yielded,
                   lastBody, backoff, scope, pureVars>>

\* close() resumes after await self._session.close(): self._session = None
KeepReference == session
ClearedReference == None

CloseEnd ==
    /\ closePc = "closing"
    /\ closePc' = "idle"
    /\ session' = ClearedReference
    /\ UNCHANGED <<live, closeCalls, semVars, pc, op, attempts,
                   sess, lastErr, lastStatus, raised, total, yielded,
                   lastBody, backoff, scope, pureVars>>
    /\ Collect

\* __aenter__: await self._init_session()
Enter ==
    /\ InitSession
    /\ scope' = "in"
    /\ UNCHANGED <<semVars, pc, op, attempts, sess, lastErr, lastStatus,
                   raised, total, yielded, lastBody, backoff, pureVars>>
    /\ Collect

\* __aexit__: pass.  <<self._session, the open sessions>> after it.
ExitClosingSession == <<None, live \ {session}>>
AfterExit == <<session, live>>

Exit ==
    /\ scope = "in"
    /\ scope' = "out"
    /\ session' = AfterExit[1]
    /\ live' = AfterExit[2]
    /\ UNCHANGED <<closePc, closeCalls, semVars, pc, op, attempts, sess,
                   lastErr, lastStatus, raised, total, yielded, lastBody,
                   backoff, pureVars>>
    /\ Collect

\* ---------------------------------------------------------- specifications
\* Spec: NumCalls concurrent calls of the three methods; responses are a
\* success, or a failure of each kind the retry layer tells apart.
ConcStatuses == {200, 500}
ConcBodies   == {"json"}
ConcErrors   == {"ClientError"}

Next ==
    \/ \E c \in Calls, o \in Ops : BeginAttempt(c, o)
    \/ \E c \in Calls : Resume(c)
    \/ \E c \in Calls, s \in ConcStatuses, b \in ConcBodies : Respond(c, s, b)
    \/ \E c \in Calls, k \in ConcErrors : NetFail(c, k)
    \/ \E c \in Calls, s \in ConcStatuses, n \in 0..MaxChunks : StreamOpen(c, s, n)
    \/ \E c \in Calls : Yield(c)
    \/ \E c \in Calls : StreamEnd(c)
    \/ \E c \in Calls : Abandon(c)
    \/ \E c \in Calls : Finalize(c)
    \/ \E c \in Calls : Cancel(c)
    \/ Close(ConcCloses)
    \/ CloseEnd

Spec == Init /\ [][Next]_vars

\* SpecFair: the calls of Spec when nobody cancels a call or abandons a
\* stream, and every request that was made is answered or fails, every stream
\* is consumed and every task the event loop has woken runs.
Completes(c) ==
    \/ Resume(c)
    \/ \E s \in ConcStatuses, b \in ConcBodies : Respond(c, s, b)
    \/ \E k \in ConcErrors : NetFail(c, k)
    \/ \E s \in ConcStatuses, n \in 0..MaxChunks : StreamOpen(c, s, n)
    \/ Yield(c)
    \/ StreamEnd(c)

NextFair ==
    \/ \E c \in Calls, o \in Ops : BeginAttempt(c, o)
    \/ \E c \in Calls : Resume(c)
    \/ \E c \in Calls, s \in ConcStatuses, b \in ConcBodies : Respond(c, s, b)
    \/ \E c \in Calls, k \in ConcErrors : NetFail(c, k)
    \/ \E c \in Calls, s \in ConcStatuses, n \in 0..MaxChunks : StreamOpen(c, s, n)
    \/ \E c \in Calls : Yield(c)
    \/ \E c \in Calls : StreamEnd(c)
    \/ Close(ConcCloses)
    \/ CloseEnd

SpecFair ==
    /\ Init
    /\ [][NextFair]_vars
    /\ \A c \in Calls : WF_vars(Completes(c))
    /\ WF_vars(CloseEnd)

\* SpecSolo: one call on the client, with every status, body and network
\* failure, the scoped entry and MaxCloses close() calls.
Solo == {1}
NetErrors == {"ClientError", "TimeoutError"}

NextSolo ==
    \/ \E c \in Solo, o \in Ops : BeginAttempt(c, o)
    \/ \E c \in Solo, s \in Statuses, b \in Bodies : Respond(c, s, b)
    \/ \E c \in Solo, k \in NetErrors : NetFail(c, k)
    \/ \E c \in Solo, s \in Statuses, n \in 0..MaxChunks : StreamOpen(c, s, n)
    \/ \E c \in Solo : Yield(c)
    \/ \E c \in Solo : StreamEnd(c)
    \/ \E c \in Solo : Abandon(c)
    \/ \E c \in Solo : Finalize(c)
    \/ \E c \in Solo : Cancel(c)
    \/ Close(MaxCloses)
    \/ CloseEnd
    \/ Enter
    \/ Exit

SpecSolo == Init /\ [][NextSolo]_vars

\* ------------------------------------------------------------------ types
TypeOK ==
    /\ session \in {None} \cup live \cup closed
    /\ live \cap closed = {}
    /\ \A c \in Calls : sess[c] \in {None} \cup live \cup closed
    /\ semValue \in 0..Limit
    /\ \A c \in Calls : attempts[c] \in 0..max_retries

\* ------------------------------------------------------------- __init__
\* Strings are sequences of one-character strings.
MaxUrlTail == 6
Host == <<"h">>
UrlChars == {"/", "a", "p", "i"}
Urls == {Host \o t : t \in UNION {[1..n -> UrlChars] : n \in 0..MaxUrlTail}}

\* str.rstrip('/')
RECURSIVE RStrip(_)
RStrip(s) ==
    IF s # <<>> /\ s[Len(s)] = "/" THEN RStrip(SubSeq(s, 1, Len(s) - 1)) ELSE s

\* str.endswith
EndsWith(s, t) ==
    /\ Len(s) >= Len(t)
    /\ SubSeq(s, Len(s) - Len(t) + 1, Len(s)) = t

ApiSuffix == <<"/", "a", "p", "i", "/">>

\* self.base_url = url.rstrip('/') + '/api/' if not url.endswith('/api/')
\*                 else url.rstrip('/') + '/'
BaseUrl(u) ==
    IF ~EndsWith(u, ApiSuffix) THEN RStrip(u) \o ApiSuffix
    ELSE RStrip(u) \o <<"/">>

InitUrl ==
    /\ IdleClient
    /\ IdleChunks
    /\ stage = "url"
    /\ url \in Urls
    /\ base_url = <<>>

\* Dhis2(url, ...)
Construct ==
    /\ stage = "url"
    /\ stage' = "built"
    /\ base_url' = BaseUrl(url)
    /\ UNCHANGED <<url, chunkVars, clientVars, closed, semVars, pc, op,
                   attempts, sess, lastErr, lastStatus, raised, total, yielded,
                   lastBody, backoff, scope>>

NextUrl == Construct

SpecUrl == InitUrl /\ [][NextUrl]_vars

\* ------------------------------------------- get_streamed, byte by byte
\* One streamed response: its head, the arrival of its body from the network
\* and the chunks `async for chunk in response.content.iter_chunked(1024)`
\* produces.  Bytes are counted in pieces of half a chunk.
chunk_size == 1024
MaxHalves == 6
HalfChunk == chunk_size \div 2
BodyLens == {k * HalfChunk : k \in 0..MaxHalves}

\* The offsets of a body of n bytes at which a read can stop.
Cuts(n) == {k * HalfChunk : k \in 1..((n \div HalfChunk) - 1)}

RECURSIVE Sum(_)
Sum(q) == IF q = <<>> THEN 0 ELSE q[1] + Sum(Tail(q))

InitChunks ==
    /\ IdleClient
    /\ IdleUrl
    /\ stage = "head"
    /\ bodyLen \in BodyLens
    /\ inside \in SUBSET Cuts(bodyLen)
    /\ pending = bodyLen
    /\ buffer = 0
    /\ chunks = <<>>

callVars == <<clientVars, closed, semVars, pc, op, attempts, sess, lastErr,
              lastStatus, raised, total, yielded, lastBody, backoff, scope>>

\* response.raise_for_status()
StreamHead(status) ==
    /\ stage = "head"
    /\ stage' = IF StreamStatusCheck(status) = "none" THEN "body" ELSE "refused"
    /\ UNCHANGED <<urlVars, chunkVars, callVars>>

\* The network delivers n more bytes of the body.
Arrive(n) ==
    /\ stage = "body"
    /\ n \in 1..pending
    /\ pending' = pending - n
    /\ buffer' = buffer + n
    /\ UNCHANGED <<stage, bodyLen, inside, chunks, urlVars, callVars>>

\* StreamReader.read(n) returns what is buffered, n bytes at most.
ReadSize(n) == Min(buffer, n)

\* bytes.decode('utf-8') of the bytes from offset a up to offset b
Decodable(a, b) == a \notin inside /\ b \notin inside

\* One turn of the loop: read a chunk, decode it, yield it.
ReadChunk ==
    /\ stage = "body"
    /\ buffer > 0
    /\ LET n == ReadSize(chunk_size)
           a == Sum(chunks)
       IN /\ buffer' = buffer - n
          /\ IF Decodable(a, a + n)
             THEN chunks' = Append(chunks, n) /\ stage' = stage
             ELSE chunks' = chunks /\ stage' = "error"
    /\ UNCHANGED <<bodyLen, inside, pending, urlVars, callVars>>

\* read() returns b'' at the end of the body: the loop and the generator end.
EndOfBody ==
    /\ stage = "body"
    /\ buffer = 0 /\ pending = 0
    /\ stage' = "eof"
    /\ UNCHANGED <<urlVars, chunkVars, callVars>>

NextChunks ==
    \/ \E status \in Statuses : StreamHead(status)
    \/ \E k \in 1..MaxHalves : Arrive(k * HalfChunk)
    \/ ReadChunk
    \/ EndOfBody

SpecChunks == InitChunks /\ [][NextChunks]_vars

\* ================================================================= claims
Terminal == {"done", "failed", "cancelled", "closed"}
CoroutineOps == {"get", "post"}

\* The calls whose request is issued and whose response or stream is not
\* completed yet.
InFlight == {c \in Calls : pc[c] \in {"inflight", "streaming", "abandoned"}}

\* The calls that own a slot of the semaphore.
Holders == {c \in Calls : pc[c] \in {"woken", "inflight", "streaming", "abandoned"}}

\* C1: at no instant are more than Limit requests in flight, whatever the
\* interleaving of get, get_streamed and post calls and of their retries; a
\* call that finds no free slot waits and does not make its request.
C1_ConcurrencyCap ==
    /\ Cardinality(InFlight) <= Limit
    /\ \A c \in Calls : pc[c] = "waiting" => sess[c] # None /\ c \notin InFlight
    /\ semValue >= 0

C1_Witness ==
    /\ Cardinality(InFlight) = Limit
    /\ \E c \in Calls : pc[c] = "waiting"

C3_BadRequestNotRetried ==
    \A c \in Calls :
        (op[c] \in CoroutineOps /\ lastStatus[c] = 400)
            => /\ pc[c] = "failed"
               /\ raised[c] = "NonRetryableError"

C3_Witness ==
    \E c \in Calls :
        /\ op[c] = "post" /\ lastStatus[c] = 400 /\ attempts[c] = 1
        /\ pc[c] = "failed" /\ raised[c] = "NonRetryableError"

\* C4: a 5xx answer to a get or post leads to another attempt while attempts
\* remain, so a call that ends on a 5xx answer has made max_retries attempts.
C4_ServerErrorRetried ==
    \A c \in Calls :
        (op[c] \in CoroutineOps /\ lastStatus[c] >= 500)
            => /\ attempts[c] < max_retries => pc[c] = "sleeping"
               /\ pc[c] = "failed" => attempts[c] = max_retries

\* C5: a get or post makes at least 1 and at most max_retries = 3 attempts;
\* it waits for another attempt only while fewer than 3 were made, and a call
\* that ends on a network error or a timeout has made exactly 3.
C5_AttemptBound ==
    \A c \in Calls :
        (op[c] \in CoroutineOps /\ pc[c] # "idle")
            => /\ attempts[c] \in 1..max_retries
               /\ pc[c] = "sleeping" => attempts[c] < max_retries
               /\ (pc[c] = "failed" /\ lastErr[c] \in NetErrors)
                      => attempts[c] = max_retries

C5_Witness ==
    \E c \in Calls :
        /\ op[c] = "get" /\ pc[c] = "failed"
        /\ lastErr[c] = "TimeoutError" /\ attempts[c] = max_retries

\* C6: the exception raised to the caller of get, get_streamed or post is
\* the exception of the last attempt, of the same kind.
C6_LastErrorUnchanged ==
    \A c \in Calls : pc[c] = "failed" => raised[c] = lastErr[c]

\* C7: a get_streamed that fails with a network error or a timeout, mid-stream
\* included, is issued again while fewer than max_retries attempts were made.
C7_StreamRetried ==
    \A c \in Calls :
        (op[c] = "get_streamed" /\ lastErr[c] \in NetErrors
            /\ attempts[c] < max_retries)
            => pc[c] = "sleeping"

\* C8: a call that makes its request makes it on a session that is not
\* closed.
C8_ClosedSessionNeverUsed ==
    [][\A c \in Calls :
          (pc[c] = "woken" /\ pc'[c] \notin {"woken", "cancelled"})
              => sess[c] \notin closed]_vars

\* C9: at most one session is created and not closed, and it is the one the
\* client refers to.
C9_OneLiveSession ==
    /\ Cardinality(live) <= 1
    /\ live \subseteq {session}

\* C10: close() on an open session closes it, and clears the reference when it
\* resumes; close() on a client without an open session changes nothing; and
\* an attempt that starts afterwards runs on an open session the client
\* refers to, created by the attempt when there was none.
C10_CloseIdempotent ==
    [][/\ closeCalls' # closeCalls =>
             IF session # None /\ session \in live
             THEN session \in closed' /\ session \notin live' /\ session' = session
             ELSE UNCHANGED <<session, live, closed, closePc>>
       /\ (closePc = "closing" /\ closePc' = "idle") => session' = None
       /\ \A c \in Calls :
             attempts'[c] # attempts[c] =>
                /\ session' \in live'
                /\ pc'[c] = "waiting" => sess'[c] = session'
                /\ (session = None \/ session \in closed) => session' \notin live
      ]_vars

C10_Witness ==
    /\ closeCalls = 2 /\ closePc = "idle"
    /\ pc[1] = "inflight" /\ attempts[1] = 1
    /\ live = {session} /\ closed = {}

\* C11: entering `async with client` leaves the client with an open session,
\* the one it had when that was open; leaving the block changes nothing of
\* the client or of its calls; and the client's open session is replaced or
\* closed only by close().
C11_ScopedUse ==
    [][/\ (scope # "in" /\ scope' = "in")
            => /\ session' \in live'
               /\ session \in live => session' = session
       /\ (scope = "in" /\ scope' = "out")
            => UNCHANGED <<session, live, closed, closePc, closeCalls,
                           semValue, waiters, pc, op, attempts, sess, lastErr,
                           lastStatus, raised, total, yielded, lastBody,
                           backoff>>
       /\ (session \in live /\ session' # session) => closePc = "closing"
       /\ (session \in live /\ session \notin live')
            => closeCalls' # closeCalls
      ]_vars

C11_Witness ==
    /\ scope = "out" /\ closeCalls = 0
    /\ session \in live
    /\ pc[1] = "inflight" /\ attempts[1] = 1

\* The urls of C12: a host, with or without /api, followed by 0, 1 or 2
\* slashes.
Slashes == {<<>>, <<"/">>, <<"/", "/">>}
ClaimedUrls == {Host \o a \o t : a \in {<<>>, <<"/", "a", "p", "i">>}, t \in Slashes}

DoubledSlash(s) == \E i \in 1..(Len(s) - 1) : s[i] = "/" /\ s[i + 1] = "/"

\* C12: for a url with or without /api and with 0, 1 or 2 trailing slashes,
\* the base url of the constructed client ends with /api/, not with
\* /api/api/, and has no doubled slash.
C12_ExactlyOneApi ==
    (stage = "built" /\ url \in ClaimedUrls)
        => /\ EndsWith(base_url, ApiSuffix)
           /\ ~EndsWith(base_url, <<"/", "a", "p", "i">> \o ApiSuffix)
           /\ ~DoubledSlash(base_url)

\* C13: a get_streamed whose status check passes yields the whole body in
\* chunks of exactly chunk_size bytes, the last one being the remainder, so a
\* body of 3 * chunk_size bytes comes as exactly 3 chunks; and one whose status
\* check fails yields no chunk.
C13_ExactChunks ==
    /\ stage = "refused" => chunks = <<>>
    /\ stage # "error"
    /\ stage \in {"body", "eof"} =>
          \A i \in 1..Len(chunks) :
              \/ chunks[i] = chunk_size
              \/ i = Len(chunks) /\ Sum(chunks) = bodyLen
    /\ stage = "eof" =>
          /\ Sum(chunks) = bodyLen
          /\ bodyLen = 3 * chunk_size => Len(chunks) = 3

\* C14: a get, get_streamed or post answered with a status that is neither
\* 2xx nor 5xx fails with NonRetryableError after exactly one attempt.
C14_OtherStatusNotRetryable ==
    \A c \in Calls :
        (lastStatus[c] # 0 /\ lastStatus[c] \notin 200..299
            /\ lastStatus[c] \notin 500..599)
            => /\ pc[c] = "failed"
               /\ raised[c] = "NonRetryableError"
               /\ attempts[c] = 1

\* C15: a get or post answered with a 2xx status and an empty body fails the
\* attempt with the retryable ClientError, is retried while attempts remain,
\* and never returns; a call that returns has received a JSON body.
C15_EmptyBodyRetried ==
    \A c \in Calls :
        op[c] \in CoroutineOps =>
            /\ (lastBody[c] = "empty" /\ lastStatus[c] \in 200..299)
                   => /\ lastErr[c] = "ClientError"
                      /\ pc[c] \in {"sleeping", "failed"}
                      /\ attempts[c] < max_retries => pc[c] = "sleeping"
            /\ pc[c] = "done" => lastBody[c] = "json"

C15_Witness ==
    /\ op[1] = "post" /\ pc[1] = "sleeping" /\ attempts[1] = 2
    /\ lastBody[1] = "empty" /\ lastStatus[1] = 200

\* The get_streamed calls whose request is issued and whose stream is neither
\* consumed to its end nor failed.
OpenStreams ==
    {c \in Calls : op[c] = "get_streamed"
                    /\ pc[c] \in {"inflight", "streaming", "abandoned"}}

\* C16: every open stream holds a slot until it is consumed or fails, also
\* after its head and its chunks have arrived; while Limit streams are open
\* no other call is in flight or has been given a slot.
C16_SlotHeldWhileStreaming ==
    /\ semValue <= Limit - Cardinality(OpenStreams)
    /\ Cardinality(OpenStreams) = Limit
          => \A c \in Calls \ OpenStreams : c \notin Holders

C16_Witness ==
    /\ Cardinality(OpenStreams) = Limit
    /\ \E c \in OpenStreams : pc[c] = "streaming" /\ yielded[c] = total[c]
                                /\ total[c] > 0
    /\ \E c \in Calls : pc[c] = "waiting"

\* C17: a call sleeping after failed attempt n sleeps min(10, max(1, 2^(n-1)))
\* seconds, which is between 1 and 10; the sleep after a later attempt is not
\* shorter; and a call that is not between two attempts, one that failed on a
\* non-retryable error or on its last attempt included, has no sleep.
C17_BackoffBounds ==
    /\ \A c \in Calls :
          IF pc[c] = "sleeping"
          THEN /\ backoff[c] = Min(10, Max(1, 2 ^ (attempts[c] - 1)))
               /\ backoff[c] \in 1..10
               /\ \A n \in 1..attempts[c] : WaitExponential(n) <= backoff[c]
          ELSE backoff[c] = 0
    /\ \A c \in Calls :
          (pc[c] = "failed" /\ op[c] \in CoroutineOps)
              => \/ attempts[c] = max_retries
                 \/ ~RetryPredicate(lastErr[c])

C17_Witness ==
    /\ op[1] = "get" /\ pc[1] = "sleeping"
    /\ attempts[1] = 2 /\ backoff[1] = 2

\* The waiters of the queue q, as a set.
Queued(q) == {q[i] : i \in 1..Len(q)}

\* C18: the step in which an attempt fails and its call starts the backoff
\* sleep gives the call's slot back, to the free slots or to the oldest
\* waiter; a sleeping call has no slot, no place in the queue and no session
\* in hand; and the step that starts its next attempt checks the session
\* again and takes one slot or joins the queue.
C18_NoSlotDuringBackoff ==
    [][\A c \in Calls :
          /\ (pc[c] # "sleeping" /\ pc'[c] = "sleeping")
                => /\ c \in Holders
                   /\ \/ semValue' = semValue + 1
                      \/ /\ semValue' = semValue
                         /\ \E d \in Calls \ {c} :
                                pc[d] = "waiting" /\ pc'[d] = "woken"
          /\ pc'[c] = "sleeping"
                => /\ c \notin Queued(waiters')
                   /\ sess'[c] = None
                   /\ semValue' + Cardinality({d \in Calls \ {c} :
                          pc'[d] \in {"woken", "inflight", "streaming",
                                      "abandoned"}}) = Limit
          /\ (pc[c] = "sleeping" /\ pc'[c] \notin {"sleeping", "cancelled"})
                => /\ attempts'[c] = attempts[c] + 1
                   /\ session' \in live'
                   /\ \/ pc'[c] = "inflight" /\ semValue' = semValue - 1
                      \/ /\ pc'[c] = "waiting" /\ semValue' = semValue
                         /\ waiters' = Append(waiters, c)
      ]_vars

C18_Witness ==
    \E c, d \in Calls :
        /\ pc[c] = "sleeping" /\ attempts[c] = 2
        /\ pc[d] = "inflight"
        /\ Cardinality(InFlight) = Limit

\* C19: when every request that was made completes, a get or post that waits
\* for a slot eventually gets one and makes its request.
C19_NoStarvation ==
    \A c \in Calls :
        (pc[c] = "waiting" /\ op[c] \in CoroutineOps) ~> (pc[c] = "inflight")

====
